---- MODULE Spec2Model ----
(***************************************************************************)
(* Block index tree (CBlockIndex), active chain (CChain) and disk record   *)
(* (CDiskBlockIndex) of src/src/chain.h.                                    *)
(*                                                                         *)
(* A CBlockIndex* is modelled by the block's hash.  A hash is the tuple    *)
(* of the parent's hash extended by one number that tells siblings apart   *)
(* (the header's hashPrevBlock and the rest of the header), so distinct    *)
(* headers have distinct hashes.  The null pointer and the zero hash are   *)
(* the empty tuple.                                                        *)
(***************************************************************************)
EXTENDS Integers, Sequences, FiniteSets, TLC

VARIABLES
    mapBlockIndex,  \* hash -> [pprev, pskip, nHeight]: every known block index
    vChain,         \* CChain::vChain: vChain[h + 1] is the entry of height h
    lastTip,        \* argument of the latest SetTip call (NoCall before the first)
    prevTip,        \* argument of the SetTip call before that (kept by SpecReorg)
    idx,            \* one CBlockIndex object, every field of it
    call,           \* the latest call on idx: [op, arg, ret]
    aborted,        \* an assert of a call on idx failed: the process is gone
    stream,         \* the bytes and fixed-width items of the CDiskBlockIndex written of idx
    loaded,         \* the CDiskBlockIndex the stream was read into, or built of idx
    fUseFastIndex,  \* the global fUseFastIndex
    pindexSetTip,   \* the pindex of a SetTip call whose loop is running (NoCall when none is)
    seenLocked,     \* vChain as the latest reader holding the lock found it
    seenRacy        \* vChain as the latest reader without the lock found it

raceVars == <<pindexSetTip, seenLocked, seenRacy>>

chainVars == <<mapBlockIndex, vChain, lastTip, prevTip, raceVars>>

indexVars == <<idx, call, aborted>>

diskVars == <<stream, loaded, fUseFastIndex>>

\* Bounds of the block trees explored.  Spec grows trees up to MaxHeight (high
\* enough for a locator whose step doubles) with at most MaxSide blocks off the
\* first branch; SpecReorg grows low trees with more side blocks.
MaxHeight == 13
MaxSide == 1
MaxReorgHeight == 3
MaxReorgSide == 3

NULL == << >>

\* lastTip and prevTip before the call they record: no pointer value
NoCall == <<0 - 1>>

----------------------------------------------------------------------------
(* CBlockIndex: tree linkage.  chain.h declares BuildSkip and GetAncestor; their *)
(* bodies follow the design document: a skip pointer to an ancestor at a height *)
(* derived from the block's own, followed when it does not overshoot.           *)

Blocks == DOMAIN mapBlockIndex

pprev(p) == mapBlockIndex[p].pprev

pskip(p) == mapBlockIndex[p].pskip

nHeight(p) == mapBlockIndex[p].nHeight

RECURSIVE LowestOne(_)
LowestOne(n) == IF n = 0 THEN 0 ELSE IF n % 2 = 1 THEN 1 ELSE 2 * LowestOne(n \div 2)

\* n & (n - 1): turn the lowest set bit off
InvertLowestOne(n) == n - LowestOne(n)

\* the height a skip pointer points to, tabulated for the heights explored
SkipHeight ==
    [height \in 0..(MaxHeight + 1) |->
        IF height < 2 THEN 0
        ELSE IF height % 2 = 1
             THEN InvertLowestOne(InvertLowestOne(height - 1)) + 1
             ELSE InvertLowestOne(height)]

GetSkipHeight(height) == SkipHeight[height]

\* the walk of GetAncestor over the index `index`, from pindexWalk at heightWalk
RECURSIVE AncestorWalk(_, _, _, _)
AncestorWalk(index, pindexWalk, heightWalk, height) ==
    IF heightWalk <= height THEN pindexWalk
    ELSE LET heightSkip == GetSkipHeight(heightWalk)
             heightSkipPrev == GetSkipHeight(heightWalk - 1)
         IN  IF /\ index[pindexWalk].pskip # NULL
                /\ \/ heightSkip = height
                   \/ /\ heightSkip > height
                      /\ ~(heightSkipPrev < heightSkip - 2 /\ heightSkipPrev >= height)
             THEN AncestorWalk(index, index[pindexWalk].pskip, heightSkip, height)
             ELSE AncestorWalk(index, index[pindexWalk].pprev, heightWalk - 1, height)

GetAncestor(p, height) ==
    IF height > nHeight(p) \/ height < 0 THEN NULL
    ELSE AncestorWalk(mapBlockIndex, p, nHeight(p), height)

\* mutant: the skip height is taken for the parent's height
BuildSkipOfParentHeight(parent, h) ==
    IF parent = NULL THEN NULL ELSE GetAncestor(parent, GetSkipHeight(h - 1))

\* pskip of a block of height h whose parent is parent
BuildSkip(parent, h) ==
    IF parent = NULL THEN NULL ELSE GetAncestor(parent, GetSkipHeight(h))

----------------------------------------------------------------------------
(* CChain.  Genesis, Tip, operator[], Contains, Next and Height are defined in  *)
(* chain.h; SetTip, GetLocator and both FindFork are declared there and follow  *)
(* the design document.                                                         *)

Genesis(v) == IF Len(v) > 0 THEN v[1] ELSE NULL

\* mutant: the first entry instead of the last
TipIsFirst(v) == IF Len(v) > 0 THEN v[1] ELSE NULL

Tip(v) == IF Len(v) > 0 THEN v[Len(v)] ELSE NULL

\* mutant: the entry below the one asked for
AtShifted(v, h) == IF h < 0 \/ h >= Len(v) THEN NULL ELSE v[h]

\* operator[]
At(v, h) == IF h < 0 \/ h >= Len(v) THEN NULL ELSE v[h + 1]

\* mutant: any entry at the block's height counts
ContainsAnyAtHeight(v, p) == At(v, nHeight(p)) # NULL

Contains(v, p) == At(v, nHeight(p)) = p

ChainNext(v, p) == IF Contains(v, p) THEN At(v, nHeight(p) + 1) ELSE NULL

\* mutant: the size instead of the last index
HeightIsSize(v) == Len(v)

Height(v) == Len(v) - 1

\* std::vector::resize: cut, or fill with null pointers
Resize(v, n) == [i \in 1..n |-> IF i <= Len(v) THEN v[i] ELSE NULL]

\* the loop of SetTip: write entries from the top down until one is in place
RECURSIVE SetTipWalk(_, _)
SetTipWalk(v, p) ==
    IF p # NULL /\ v[nHeight(p) + 1] # p
    THEN SetTipWalk([v EXCEPT ![nHeight(p) + 1] = p], pprev(p))
    ELSE v

SetTipResult(v, p) ==
    IF p = NULL THEN << >> ELSE SetTipWalk(Resize(v, nHeight(p) + 1), p)

\* FindFork(const CBlockIndex*): p is not null
RECURSIVE ForkWalk(_, _)
ForkWalk(v, p) == IF p # NULL /\ ~Contains(v, p) THEN ForkWalk(v, pprev(p)) ELSE p

FindFork(v, p) ==
    ForkWalk(v, IF nHeight(p) > Height(v) THEN GetAncestor(p, Height(v)) ELSE p)

\* number of locator entries after which the step starts doubling
LocatorSingleSteps == 10

Max(a, b) == IF a > b THEN a ELSE b

RECURSIVE LocatorWalk(_, _, _, _)
LocatorWalk(v, pindex, nStep, vHave) ==
    IF pindex = NULL THEN vHave
    ELSE LET have == Append(vHave, pindex)
             h == Max(nHeight(pindex) - nStep, 0)
         IN  IF nHeight(pindex) = 0 THEN have
             ELSE LocatorWalk(v,
                              IF Contains(v, pindex) THEN At(v, h) ELSE GetAncestor(pindex, h),
                              IF Len(have) > LocatorSingleSteps THEN nStep * 2 ELSE nStep,
                              have)

\* GetLocator(pindex): the hashes of pindex (the tip when null) and of blocks before it
GetLocator(v, pindex) == LocatorWalk(v, IF pindex = NULL THEN Tip(v) ELSE pindex, 1, << >>)

\* FindFork(const CBlockLocator&): the first hash that is known and in the chain
RECURSIVE LocatorForkWalk(_, _, _)
LocatorForkWalk(v, vHave, i) ==
    IF i > Len(vHave) THEN Genesis(v)
    ELSE IF vHave[i] \in Blocks /\ Contains(v, vHave[i]) THEN vHave[i]
    ELSE LocatorForkWalk(v, vHave, i + 1)

FindForkLocator(v, vHave) == LocatorForkWalk(v, vHave, 1)

----------------------------------------------------------------------------
(* enum BlockStatus, and the bit operations on the status and flags words *)

RECURSIVE BitAnd(_, _)
BitAnd(a, b) ==
    IF a = 0 \/ b = 0 THEN 0
    ELSE 2 * BitAnd(a \div 2, b \div 2) + (IF a % 2 = 1 /\ b % 2 = 1 THEN 1 ELSE 0)

BitOr(a, b) == a + b - BitAnd(a, b)

\* a & ~b
BitClear(a, b) == a - BitAnd(a, b)

BLOCK_VALID_HEADER == 1
BLOCK_VALID_TREE == 2
BLOCK_VALID_TRANSACTIONS == 3
BLOCK_VALID_CHAIN == 4
BLOCK_VALID_SCRIPTS == 5

BLOCK_VALID_MASK ==
    BitOr(BLOCK_VALID_HEADER, BitOr(BLOCK_VALID_TREE, BitOr(BLOCK_VALID_TRANSACTIONS,
          BitOr(BLOCK_VALID_CHAIN, BLOCK_VALID_SCRIPTS))))

BLOCK_HAVE_DATA == 8
BLOCK_HAVE_UNDO == 16
BLOCK_HAVE_MASK == BitOr(BLOCK_HAVE_DATA, BLOCK_HAVE_UNDO)

BLOCK_FAILED_VALID == 32
BLOCK_FAILED_CHILD == 64
BLOCK_FAILED_MASK == BitOr(BLOCK_FAILED_VALID, BLOCK_FAILED_CHILD)

----------------------------------------------------------------------------
(* CBlockIndex: one object *)

\* COutPoint::SetNull
NullOutPoint == [hash |-> 0, n |-> 0 - 1]

\* CBlockIndex::SetNull: the fields of a default-constructed CBlockIndex
SetNull ==
    [phashBlock |-> NULL, pprev |-> NULL, pskip |-> NULL, nHeight |-> 0, nFile |-> 0,
     nDataPos |-> 0, nUndoPos |-> 0, nChainTrust |-> 0, nTx |-> 0, nChainTx |-> 0,
     nStatus |-> 0, nSequenceId |-> 0, nMint |-> 0, nMoneySupply |-> 0, nFlags |-> 0,
     nStakeModifier |-> 0, hashProof |-> 0, prevoutStake |-> NullOutPoint,
     nStakeTime |-> 0, nVersion |-> 0, hashMerkleRoot |-> 0, nTime |-> 0, nBits |-> 0,
     nNonce |-> 0, POSDetailSet |-> FALSE]

\* mutant: the have flags pass too
OnlyValidityOrHaveFlags(nUpTo) == BitClear(nUpTo, BitOr(BLOCK_VALID_MASK, BLOCK_HAVE_MASK)) = 0

\* assert(!(nUpTo & ~BLOCK_VALID_MASK))
OnlyValidityFlags(nUpTo) == BitClear(nUpTo, BLOCK_VALID_MASK) = 0

\* IsValid past its assert
IsValid(nStatus, nUpTo) ==
    IF BitAnd(nStatus, BLOCK_FAILED_MASK) # 0 THEN FALSE
    ELSE BitAnd(nStatus, BLOCK_VALID_MASK) >= nUpTo

\* mutant: the failure bits are not looked at
RaiseValidityIgnoringFailure(nStatus, nUpTo) ==
    IF BitAnd(nStatus, BLOCK_VALID_MASK) < nUpTo
    THEN [nStatus |-> BitOr(BitClear(nStatus, BLOCK_VALID_MASK), nUpTo), ret |-> TRUE]
    ELSE [nStatus |-> nStatus, ret |-> FALSE]

\* mutant: any other level is taken, a lower one too
RaiseValidityToAnyLevel(nStatus, nUpTo) ==
    IF BitAnd(nStatus, BLOCK_FAILED_MASK) # 0 THEN [nStatus |-> nStatus, ret |-> FALSE]
    ELSE IF BitAnd(nStatus, BLOCK_VALID_MASK) # nUpTo
    THEN [nStatus |-> BitOr(BitClear(nStatus, BLOCK_VALID_MASK), nUpTo), ret |-> TRUE]
    ELSE [nStatus |-> nStatus, ret |-> FALSE]

\* RaiseValidity past its assert: the new status word and the value returned
RaiseValidity(nStatus, nUpTo) ==
    IF BitAnd(nStatus, BLOCK_FAILED_MASK) # 0 THEN [nStatus |-> nStatus, ret |-> FALSE]
    ELSE IF BitAnd(nStatus, BLOCK_VALID_MASK) < nUpTo
    THEN [nStatus |-> BitOr(BitClear(nStatus, BLOCK_VALID_MASK), nUpTo), ret |-> TRUE]
    ELSE [nStatus |-> nStatus, ret |-> FALSE]

----------------------------------------------------------------------------
(* Calls on the validity facet of idx *)

\* nUpTo arguments: the validity levels, other values within the mask, and flags
\* that are no validity level
UpToArgs == 0..7 \cup {BLOCK_HAVE_DATA, BLOCK_HAVE_UNDO, BLOCK_FAILED_VALID,
                       BLOCK_FAILED_CHILD, BitOr(BLOCK_VALID_TREE, BLOCK_HAVE_DATA)}

CallIsValid(nUpTo) ==
    /\ ~aborted
    /\ IF OnlyValidityFlags(nUpTo)
       THEN /\ call' = [op |-> "IsValid", arg |-> nUpTo, ret |-> IsValid(idx.nStatus, nUpTo)]
            /\ UNCHANGED aborted
       ELSE /\ call' = [op |-> "IsValid", arg |-> nUpTo, ret |-> "assert"]
            /\ aborted' = TRUE
    /\ UNCHANGED <<idx, chainVars, diskVars>>

CallRaiseValidity(nUpTo) ==
    /\ ~aborted
    /\ IF OnlyValidityFlags(nUpTo)
       THEN LET r == RaiseValidity(idx.nStatus, nUpTo)
            IN  /\ idx' = [idx EXCEPT !.nStatus = r.nStatus]
                /\ call' = [op |-> "RaiseValidity", arg |-> nUpTo, ret |-> r.ret]
                /\ UNCHANGED aborted
       ELSE /\ call' = [op |-> "RaiseValidity", arg |-> nUpTo, ret |-> "assert"]
            /\ aborted' = TRUE
            /\ UNCHANGED idx
    /\ UNCHANGED <<chainVars, diskVars>>

\* the validation code marks the block, or an ancestor of it, as failed
MarkFailed(flag) ==
    /\ ~aborted
    /\ idx' = [idx EXCEPT !.nStatus = BitOr(idx.nStatus, flag)]
    /\ call' = [op |-> "MarkFailed", arg |-> flag, ret |-> FALSE]
    /\ UNCHANGED <<aborted, chainVars, diskVars>>

\* the block's data, or its undo data, is written to disk
MarkHave(flag) ==
    /\ ~aborted
    /\ idx' = [idx EXCEPT !.nStatus = BitOr(idx.nStatus, flag)]
    /\ call' = [op |-> "MarkHave", arg |-> flag, ret |-> FALSE]
    /\ UNCHANGED <<aborted, chainVars, diskVars>>

----------------------------------------------------------------------------
(* Calls on the proof-of-stake facet of idx *)

BLOCK_PROOF_OF_STAKE == 1
BLOCK_STAKE_ENTROPY == 2
BLOCK_STAKE_MODIFIER == 4

\* block headers a CBlockIndex is built from: nVersion, hashMerkleRoot, nTime, nBits, nNonce
Headers ==
    {[nVersion |-> 1, hashMerkleRoot |-> 1, nTime |-> 1, nBits |-> 1, nNonce |-> 0],
     [nVersion |-> 2, hashMerkleRoot |-> 0, nTime |-> 2, nBits |-> 1, nNonce |-> 1]}

\* CBlockIndex(const CBlockHeader&)
IndexFromHeader(block) ==
    [SetNull EXCEPT !.nVersion = block.nVersion, !.hashMerkleRoot = block.hashMerkleRoot,
                    !.nTime = block.nTime, !.nBits = block.nBits, !.nNonce = block.nNonce]

OutPoints == {[hash |-> 1, n |-> 0], [hash |-> 1, n |-> 1]}

\* transactions of a block body: nTime, and the prevout of every input
CoinBase == [nTime |-> 3, vin |-> <<[prevout |-> NullOutPoint]>>]

SecondTx(o, t) == [nTime |-> t, vin |-> <<[prevout |-> o], [prevout |-> [hash |-> 2, n |-> 0]]>>]

\* block bodies handed to SetPOSDetail: what CBlock::IsProofOfStake returns, and
\* vtx.  A proof-of-stake block holds the coin stake after the coin base; a
\* proof-of-work block may hold the coin base alone.
Bodies ==
    {[pos |-> TRUE, vtx |-> <<CoinBase, SecondTx(o, t)>>] : o \in OutPoints, t \in 1..2}
        \cup {[pos |-> FALSE, vtx |-> <<CoinBase>>],
              [pos |-> FALSE, vtx |-> <<CoinBase, SecondTx([hash |-> 1, n |-> 0], 1)>>]}

IsProofOfWork(index) == BitAnd(index.nFlags, BLOCK_PROOF_OF_STAKE) = 0

\* IsProofOfStake past its assert
IsProofOfStake(index) == BitAnd(index.nFlags, BLOCK_PROOF_OF_STAKE) # 0

SetProofOfStake(index) == [index EXCEPT !.nFlags = BitOr(index.nFlags, BLOCK_PROOF_OF_STAKE)]

GetStakeEntropyBit(index) == BitAnd(index.nFlags, BLOCK_STAKE_ENTROPY) \div 2

\* mutant: the range check is missing
SetStakeEntropyBitUnchecked(index, nEntropyBit) ==
    [index |-> [index EXCEPT !.nFlags =
                   BitOr(index.nFlags, IF nEntropyBit # 0 THEN BLOCK_STAKE_ENTROPY ELSE 0)],
     ret |-> TRUE]

\* SetStakeEntropyBit: the object afterwards and the value returned
SetStakeEntropyBit(index, nEntropyBit) ==
    IF nEntropyBit > 1 THEN [index |-> index, ret |-> FALSE]
    ELSE [index |-> [index EXCEPT !.nFlags =
                        BitOr(index.nFlags, IF nEntropyBit # 0 THEN BLOCK_STAKE_ENTROPY ELSE 0)],
          ret |-> TRUE]

GeneratedStakeModifier(index) == BitAnd(index.nFlags, BLOCK_STAKE_MODIFIER) # 0

SetStakeModifier(index, nModifier, fGeneratedStakeModifier) ==
    [index EXCEPT !.nStakeModifier = nModifier,
                  !.nFlags = IF fGeneratedStakeModifier
                             THEN BitOr(index.nFlags, BLOCK_STAKE_MODIFIER)
                             ELSE index.nFlags]

\* mutant: the coin base is read instead of the transaction after it
SetPOSDetailOfFirstTx(index, block) ==
    IF block.pos
    THEN [SetProofOfStake(index) EXCEPT !.prevoutStake = block.vtx[1].vin[1].prevout,
                                        !.nStakeTime = block.vtx[1].nTime,
                                        !.POSDetailSet = TRUE]
    ELSE [index EXCEPT !.prevoutStake = NullOutPoint, !.nStakeTime = 0,
                       !.POSDetailSet = TRUE]

\* vtx[1] and vin[0] of the code are vtx[2] and vin[1] here: sequences start at 1
SetPOSDetail(index, block) ==
    IF block.pos
    THEN [SetProofOfStake(index) EXCEPT !.prevoutStake = block.vtx[2].vin[1].prevout,
                                        !.nStakeTime = block.vtx[2].nTime,
                                        !.POSDetailSet = TRUE]
    ELSE [index EXCEPT !.prevoutStake = NullOutPoint, !.nStakeTime = 0,
                       !.POSDetailSet = TRUE]

NewIndex ==
    /\ ~aborted
    /\ idx' = SetNull
    /\ call' = [op |-> "CBlockIndex", arg |-> 0, ret |-> FALSE]
    /\ UNCHANGED <<aborted, chainVars, diskVars>>

NewIndexFromHeader(block) ==
    /\ ~aborted
    /\ idx' = IndexFromHeader(block)
    /\ call' = [op |-> "CBlockIndexFromHeader", arg |-> block, ret |-> FALSE]
    /\ UNCHANGED <<aborted, chainVars, diskVars>>

CallIsProofOfWork ==
    /\ ~aborted
    /\ call' = [op |-> "IsProofOfWork", arg |-> 0, ret |-> IsProofOfWork(idx)]
    /\ UNCHANGED <<idx, aborted, chainVars, diskVars>>

\* mutant: no assert
CallIsProofOfStakeUnchecked ==
    /\ ~aborted
    /\ call' = [op |-> "IsProofOfStake", arg |-> 0, ret |-> IsProofOfStake(idx)]
    /\ UNCHANGED <<idx, aborted, chainVars, diskVars>>

\* assert(POSDetailSet == true); return (nFlags & BLOCK_PROOF_OF_STAKE);
CallIsProofOfStake ==
    /\ ~aborted
    /\ IF idx.POSDetailSet
       THEN /\ call' = [op |-> "IsProofOfStake", arg |-> 0, ret |-> IsProofOfStake(idx)]
            /\ UNCHANGED aborted
       ELSE /\ call' = [op |-> "IsProofOfStake", arg |-> 0, ret |-> "assert"]
            /\ aborted' = TRUE
    /\ UNCHANGED <<idx, chainVars, diskVars>>

CallSetProofOfStake ==
    /\ ~aborted
    /\ idx' = SetProofOfStake(idx)
    /\ call' = [op |-> "SetProofOfStake", arg |-> 0, ret |-> FALSE]
    /\ UNCHANGED <<aborted, chainVars, diskVars>>

CallGetStakeEntropyBit ==
    /\ ~aborted
    /\ call' = [op |-> "GetStakeEntropyBit", arg |-> 0, ret |-> GetStakeEntropyBit(idx)]
    /\ UNCHANGED <<idx, aborted, chainVars, diskVars>>

CallSetStakeEntropyBit(nEntropyBit) ==
    /\ ~aborted
    /\ idx' = SetStakeEntropyBit(idx, nEntropyBit).index
    /\ call' = [op |-> "SetStakeEntropyBit", arg |-> nEntropyBit,
                ret |-> SetStakeEntropyBit(idx, nEntropyBit).ret]
    /\ UNCHANGED <<aborted, chainVars, diskVars>>

CallGeneratedStakeModifier ==
    /\ ~aborted
    /\ call' = [op |-> "GeneratedStakeModifier", arg |-> 0, ret |-> GeneratedStakeModifier(idx)]
    /\ UNCHANGED <<idx, aborted, chainVars, diskVars>>

CallSetStakeModifier(nModifier, fGeneratedStakeModifier) ==
    /\ ~aborted
    /\ idx' = SetStakeModifier(idx, nModifier, fGeneratedStakeModifier)
    /\ call' = [op |-> "SetStakeModifier", arg |-> <<nModifier, fGeneratedStakeModifier>>,
                ret |-> FALSE]
    /\ UNCHANGED <<aborted, chainVars, diskVars>>

CallSetPOSDetail(block) ==
    /\ ~aborted
    /\ idx' = SetPOSDetail(idx, block)
    /\ call' = [op |-> "SetPOSDetail", arg |-> block, ret |-> FALSE]
    /\ UNCHANGED <<aborted, chainVars, diskVars>>

NextStake ==
    \/ NewIndex
    \/ \E block \in Headers : NewIndexFromHeader(block)
    \/ CallIsProofOfWork
    \/ CallIsProofOfStake
    \/ CallSetProofOfStake
    \/ CallGetStakeEntropyBit
    \/ \E nEntropyBit \in 0..3 : CallSetStakeEntropyBit(nEntropyBit)
    \/ CallGeneratedStakeModifier
    \/ \E nModifier \in 0..1, f \in BOOLEAN : CallSetStakeModifier(nModifier, f)
    \/ \E block \in Bodies : CallSetPOSDetail(block)

\* both facets of one block index: the proof-of-stake calls, and calls that set
\* bits of every group of the status word
NextBlockIndex ==
    \/ NextStake
    \/ CallRaiseValidity(BLOCK_VALID_TREE)
    \/ MarkHave(BLOCK_HAVE_DATA)
    \/ MarkFailed(BLOCK_FAILED_VALID)

----------------------------------------------------------------------------
(* CDiskBlockIndex *)

\* bound on the fields of idx that are given a value other than SetNull's
MaxDirty == 2

\* no stream written, no record read
NoStream == <<"none">>

NoRecord == [none |-> TRUE]

\* serialization types (nType)
SER_DISK == 2
SER_GETHASH == 4

\* the hash a block index pointer stands for (*pindex->phashBlock)
GetBlockHash(pindex) == pindex

\* CDiskBlockIndex(): a CBlockIndex() with hashPrev and blockHash zero
DiskBlockIndex == SetNull @@ [hashPrev |-> NULL, blockHash |-> NULL]

\* mutant: the parent's hash is left out
DiskFromIndexWithoutPrev(pindex) == pindex @@ [hashPrev |-> NULL, blockHash |-> NULL]

\* CDiskBlockIndex(CBlockIndex* pindex)
DiskFromIndex(pindex) ==
    pindex @@ [hashPrev |-> IF pindex.pprev # NULL THEN GetBlockHash(pindex.pprev) ELSE NULL,
               blockHash |-> NULL]

\* VARINT: base-128 digits, the high bit set on all but the last, each digit
\* but the last one less than its value
RECURSIVE VarIntHigh(_)
VarIntHigh(n) ==
    IF n <= 127 THEN <<n + 128>> ELSE VarIntHigh((n \div 128) - 1) \o <<(n % 128) + 128>>

WriteVarInt(n) == IF n <= 127 THEN <<n>> ELSE VarIntHigh((n \div 128) - 1) \o <<n % 128>>

RECURSIVE ReadVarInt(_, _, _)
ReadVarInt(s, pos, n) ==
    IF s[pos] >= 128
    THEN ReadVarInt(s, pos + 1, (n * 128 + (s[pos] % 128)) + 1)
    ELSE [val |-> n * 128 + s[pos], pos |-> pos + 1]

\* SerializationOp writing: the stream of a record.  A fixed-width field is one item.
Serialize(disk, nType, nVersion) ==
    (IF BitAnd(nType, SER_GETHASH) = 0 THEN WriteVarInt(nVersion) ELSE << >>)
    \o WriteVarInt(disk.nHeight)
    \o WriteVarInt(disk.nStatus)
    \o WriteVarInt(disk.nTx)
    \o (IF BitAnd(disk.nStatus, BitOr(BLOCK_HAVE_DATA, BLOCK_HAVE_UNDO)) # 0
        THEN WriteVarInt(disk.nFile) ELSE << >>)
    \o (IF BitAnd(disk.nStatus, BLOCK_HAVE_DATA) # 0 THEN WriteVarInt(disk.nDataPos) ELSE << >>)
    \o (IF BitAnd(disk.nStatus, BLOCK_HAVE_UNDO) # 0 THEN WriteVarInt(disk.nUndoPos) ELSE << >>)
    \o WriteVarInt(disk.nMint)
    \o WriteVarInt(disk.nMoneySupply)
    \o <<disk.nFlags, disk.nStakeModifier>>
    \o (IF IsProofOfStake(disk) THEN <<disk.prevoutStake, disk.nStakeTime>> ELSE << >>)
    \o <<disk.hashProof, disk.nVersion, disk.hashPrev, disk.hashMerkleRoot, disk.nTime,
         disk.nBits, disk.nNonce, disk.blockHash>>

\* mutant: the stake fields of a record that is not proof-of-stake are kept
UnserializeKeepingStake(s, disk, nType) ==
    LET rVersion == IF BitAnd(nType, SER_GETHASH) = 0 THEN ReadVarInt(s, 1, 0)
                    ELSE [val |-> 0, pos |-> 1]
        rHeight == ReadVarInt(s, rVersion.pos, 0)
        rStatus == ReadVarInt(s, rHeight.pos, 0)
        rTx == ReadVarInt(s, rStatus.pos, 0)
        rFile == IF BitAnd(rStatus.val, BitOr(BLOCK_HAVE_DATA, BLOCK_HAVE_UNDO)) # 0
                 THEN ReadVarInt(s, rTx.pos, 0) ELSE [val |-> disk.nFile, pos |-> rTx.pos]
        rData == IF BitAnd(rStatus.val, BLOCK_HAVE_DATA) # 0
                 THEN ReadVarInt(s, rFile.pos, 0) ELSE [val |-> disk.nDataPos, pos |-> rFile.pos]
        rUndo == IF BitAnd(rStatus.val, BLOCK_HAVE_UNDO) # 0
                 THEN ReadVarInt(s, rData.pos, 0) ELSE [val |-> disk.nUndoPos, pos |-> rData.pos]
        rMint == ReadVarInt(s, rUndo.pos, 0)
        rMoney == ReadVarInt(s, rMint.pos, 0)
        f == rMoney.pos
        fStake == BitAnd(s[f], BLOCK_PROOF_OF_STAKE) # 0
        h == IF fStake THEN f + 4 ELSE f + 2
    IN  [disk EXCEPT !.nHeight = rHeight.val, !.nStatus = rStatus.val, !.nTx = rTx.val,
                     !.nFile = rFile.val, !.nDataPos = rData.val, !.nUndoPos = rUndo.val,
                     !.nMint = rMint.val, !.nMoneySupply = rMoney.val,
                     !.nFlags = s[f], !.nStakeModifier = s[f + 1],
                     !.POSDetailSet = TRUE,
                     !.prevoutStake = IF fStake THEN s[f + 2] ELSE disk.prevoutStake,
                     !.nStakeTime = IF fStake THEN s[f + 3] ELSE disk.nStakeTime,
                     !.hashProof = s[h], !.nVersion = s[h + 1], !.hashPrev = s[h + 2],
                     !.hashMerkleRoot = s[h + 3], !.nTime = s[h + 4], !.nBits = s[h + 5],
                     !.nNonce = s[h + 6], !.blockHash = s[h + 7]]

\* SerializationOp reading the stream s into the record disk
Unserialize(s, disk, nType) ==
    LET rVersion == IF BitAnd(nType, SER_GETHASH) = 0 THEN ReadVarInt(s, 1, 0)
                    ELSE [val |-> 0, pos |-> 1]
        rHeight == ReadVarInt(s, rVersion.pos, 0)
        rStatus == ReadVarInt(s, rHeight.pos, 0)
        rTx == ReadVarInt(s, rStatus.pos, 0)
        rFile == IF BitAnd(rStatus.val, BitOr(BLOCK_HAVE_DATA, BLOCK_HAVE_UNDO)) # 0
                 THEN ReadVarInt(s, rTx.pos, 0) ELSE [val |-> disk.nFile, pos |-> rTx.pos]
        rData == IF BitAnd(rStatus.val, BLOCK_HAVE_DATA) # 0
                 THEN ReadVarInt(s, rFile.pos, 0) ELSE [val |-> disk.nDataPos, pos |-> rFile.pos]
        rUndo == IF BitAnd(rStatus.val, BLOCK_HAVE_UNDO) # 0
                 THEN ReadVarInt(s, rData.pos, 0) ELSE [val |-> disk.nUndoPos, pos |-> rData.pos]
        rMint == ReadVarInt(s, rUndo.pos, 0)
        rMoney == ReadVarInt(s, rMint.pos, 0)
        f == rMoney.pos
        fStake == BitAnd(s[f], BLOCK_PROOF_OF_STAKE) # 0
        h == IF fStake THEN f + 4 ELSE f + 2
    IN  [disk EXCEPT !.nHeight = rHeight.val, !.nStatus = rStatus.val, !.nTx = rTx.val,
                     !.nFile = rFile.val, !.nDataPos = rData.val, !.nUndoPos = rUndo.val,
                     !.nMint = rMint.val, !.nMoneySupply = rMoney.val,
                     !.nFlags = s[f], !.nStakeModifier = s[f + 1],
                     !.POSDetailSet = TRUE,
                     !.prevoutStake = IF fStake THEN s[f + 2] ELSE NullOutPoint,
                     !.nStakeTime = IF fStake THEN s[f + 3] ELSE 0,
                     !.hashProof = s[h], !.nVersion = s[h + 1], !.hashPrev = s[h + 2],
                     !.hashMerkleRoot = s[h + 3], !.nTime = s[h + 4], !.nBits = s[h + 5],
                     !.nNonce = s[h + 6], !.blockHash = s[h + 7]]

\* values the code outside chain.h assigns to the public fields of a block index
FieldValues ==
    [phashBlock |-> {<<0, 0>>}, pprev |-> {<<0>>}, pskip |-> {<<0>>}, nHeight |-> {1, 300},
     nFile |-> {1}, nDataPos |-> {1, 200}, nUndoPos |-> {1}, nChainTrust |-> {1},
     nTx |-> {1}, nChainTx |-> {1},
     nStatus |-> {BLOCK_VALID_SCRIPTS, BLOCK_HAVE_DATA, BLOCK_HAVE_UNDO,
                  BitOr(BLOCK_VALID_TRANSACTIONS, BLOCK_HAVE_MASK),
                  BitOr(BLOCK_VALID_TREE, BLOCK_FAILED_VALID)},
     nSequenceId |-> {1}, nMint |-> {1}, nMoneySupply |-> {1},
     nFlags |-> {BLOCK_PROOF_OF_STAKE, BLOCK_STAKE_ENTROPY,
                 BitOr(BLOCK_PROOF_OF_STAKE, BLOCK_STAKE_MODIFIER)},
     nStakeModifier |-> {1}, hashProof |-> {1}, prevoutStake |-> {[hash |-> 1, n |-> 0]},
     nStakeTime |-> {1}, nVersion |-> {1}, hashMerkleRoot |-> {1}, nTime |-> {1},
     nBits |-> {1}, nNonce |-> {1}, POSDetailSet |-> {TRUE}]

Dirty(index) == {f \in DOMAIN SetNull : index[f] # SetNull[f]}

\* a public field of idx is assigned, before idx is written
SetField(f, v) ==
    /\ ~aborted
    /\ stream = NoStream
    /\ Cardinality(Dirty(idx) \cup {f}) <= MaxDirty
    /\ idx' = [idx EXCEPT ![f] = v]
    /\ call' = [op |-> "SetField", arg |-> f, ret |-> FALSE]
    /\ UNCHANGED <<aborted, stream, loaded, fUseFastIndex, chainVars>>

\* a CDiskBlockIndex is built of idx and serialized
WriteIndex(nType, nVersion) ==
    /\ ~aborted
    /\ stream = NoStream
    /\ stream' = Serialize(DiskFromIndex(idx), nType, nVersion)
    /\ call' = [op |-> "Serialize", arg |-> nType, ret |-> FALSE]
    /\ UNCHANGED <<idx, aborted, loaded, fUseFastIndex, chainVars>>

\* records the stream is read into: a new CDiskBlockIndex, or one used before
ReadTargets ==
    {DiskBlockIndex,
     [DiskBlockIndex EXCEPT !.prevoutStake = [hash |-> 1, n |-> 1], !.nStakeTime = 2],
     [DiskBlockIndex EXCEPT !.nFile = 1, !.nChainTx = 1]}

\* the stream is read into a record, with the nType it was written with
ReadIndex(disk) ==
    /\ ~aborted
    /\ stream # NoStream
    /\ call.op = "Serialize"
    /\ loaded' = Unserialize(stream, disk, call.arg)
    /\ call' = [op |-> "Unserialize", arg |-> disk, ret |-> FALSE]
    /\ UNCHANGED <<idx, aborted, stream, fUseFastIndex, chainVars>>

\* CBlockHeader::GetHash: the hash of the six header fields, which differs for
\* headers that differ and is never zero
GetHash(block) ==
    <<block.nVersion, block.hashPrevBlock, block.hashMerkleRoot, block.nTime, block.nBits,
      block.nNonce>>

\* mutant: a record exactly one day old counts as old
UseCachedHashAtOneDay(disk, fFast, nAdjustedTime) ==
    /\ fFast
    /\ disk.nTime <= nAdjustedTime - 24 * 60 * 60
    /\ disk.blockHash # NULL

\* fUseFastIndex && (nTime < GetAdjustedTime() - 24 * 60 * 60) && blockHash != 0
UseCachedHash(disk, fFast, nAdjustedTime) ==
    /\ fFast
    /\ disk.nTime < nAdjustedTime - 24 * 60 * 60
    /\ disk.blockHash # NULL

\* CDiskBlockIndex::GetBlockHash: the record afterwards and the hash returned
DiskGetBlockHash(disk, fFast, nAdjustedTime) ==
    IF UseCachedHash(disk, fFast, nAdjustedTime)
    THEN [disk |-> disk, ret |-> disk.blockHash]
    ELSE LET block == [nVersion |-> disk.nVersion, hashPrevBlock |-> disk.hashPrev,
                       hashMerkleRoot |-> disk.hashMerkleRoot, nTime |-> disk.nTime,
                       nBits |-> disk.nBits, nNonce |-> disk.nNonce]
         IN  [disk |-> [disk EXCEPT !.blockHash = GetHash(block)], ret |-> GetHash(block)]

\* what GetAdjustedTime returns: around one day after the block times of Headers
AdjustedTimes == {24 * 60 * 60, 24 * 60 * 60 + 1, 24 * 60 * 60 + 2, 24 * 60 * 60 + 3}

\* values assigned to the public header fields of a record
RecordFieldValues == [hashPrev |-> {<<0>>}, nTime |-> {1, 2}, nNonce |-> {0, 1}]

\* the start-up code sets the global from its option, before records are used
SetFastIndex(f) ==
    /\ ~aborted
    /\ loaded = NoRecord
    /\ fUseFastIndex' = f
    /\ UNCHANGED <<stream, loaded, indexVars, chainVars>>

\* a CDiskBlockIndex is built of idx
NewDiskIndex ==
    /\ ~aborted
    /\ loaded' = DiskFromIndex(idx)
    /\ call' = [op |-> "CDiskBlockIndex", arg |-> 0, ret |-> FALSE]
    /\ UNCHANGED <<idx, aborted, stream, fUseFastIndex, chainVars>>

\* a public header field of the record is assigned
SetRecordField(f, v) ==
    /\ ~aborted
    /\ loaded # NoRecord
    /\ loaded' = [loaded EXCEPT ![f] = v]
    /\ call' = [op |-> "SetRecordField", arg |-> f, ret |-> FALSE]
    /\ UNCHANGED <<idx, aborted, stream, fUseFastIndex, chainVars>>

CallDiskGetBlockHash(nAdjustedTime) ==
    /\ ~aborted
    /\ loaded # NoRecord
    /\ loaded' = DiskGetBlockHash(loaded, fUseFastIndex, nAdjustedTime).disk
    /\ call' = [op |-> "DiskGetBlockHash",
                arg |-> [disk |-> loaded, nAdjustedTime |-> nAdjustedTime],
                ret |-> DiskGetBlockHash(loaded, fUseFastIndex, nAdjustedTime).ret]
    /\ UNCHANGED <<idx, aborted, stream, fUseFastIndex, chainVars>>

NextHash ==
    \/ \E f \in BOOLEAN : SetFastIndex(f)
    \/ \E block \in Headers : NewIndexFromHeader(block)
    \/ NewDiskIndex
    \/ \E f \in DOMAIN RecordFieldValues : \E v \in RecordFieldValues[f] : SetRecordField(f, v)
    \/ \E nAdjustedTime \in AdjustedTimes : CallDiskGetBlockHash(nAdjustedTime)

NextDisk ==
    \/ \E f \in DOMAIN FieldValues : \E v \in FieldValues[f] : SetField(f, v)
    \/ \E nType \in {SER_DISK, SER_GETHASH}, nVersion \in {1, 300} : WriteIndex(nType, nVersion)
    \/ \E disk \in ReadTargets : ReadIndex(disk)

DiskInit ==
    /\ stream = NoStream
    /\ loaded = NoRecord
    /\ fUseFastIndex = FALSE

IndexInit ==
    /\ idx = SetNull
    /\ call = [op |-> "none", arg |-> 0, ret |-> FALSE]
    /\ aborted = FALSE

NextValidity ==
    \/ \E nUpTo \in UpToArgs : CallIsValid(nUpTo)
    \/ \E nUpTo \in UpToArgs : CallRaiseValidity(nUpTo)
    \/ \E flag \in {BLOCK_FAILED_VALID, BLOCK_FAILED_CHILD} : MarkFailed(flag)
    \/ \E flag \in {BLOCK_HAVE_DATA, BLOCK_HAVE_UNDO} : MarkHave(flag)

----------------------------------------------------------------------------
(* Actions on the block tree and the active chain *)

Children(parent) == {b \in Blocks : pprev(b) = parent}

\* blocks off the line of first children
SideBlocks(S) == {b \in S : \E i \in 1..Len(b) : b[i] # 0}

NewHash(parent) == Append(parent, Cardinality(Children(parent)))

\* A header is accepted: a block index is created, linked to its parent and
\* its skip pointer built.  The first block is the genesis block.
AddToBlockIndex(parent, maxHeight, maxSide) ==
    LET hash == NewHash(parent)
        h == IF parent = NULL THEN 0 ELSE nHeight(parent) + 1
    IN  /\ parent = NULL => Blocks = {}
        /\ h <= maxHeight
        /\ Cardinality(SideBlocks(Blocks \cup {hash})) <= maxSide
        /\ mapBlockIndex' = [b \in Blocks \cup {hash} |->
                                IF b = hash
                                THEN [pprev |-> parent, pskip |-> BuildSkip(parent, h),
                                      nHeight |-> h]
                                ELSE mapBlockIndex[b]]
        /\ UNCHANGED <<vChain, lastTip, prevTip, raceVars, indexVars, diskVars>>

SetTip(p) ==
    /\ vChain' = SetTipResult(vChain, p)
    /\ lastTip' = p
    /\ UNCHANGED <<mapBlockIndex, raceVars, indexVars, diskVars>>

\* bounds of the block trees SetTip runs on step by step: two branches of two
\* blocks each over the genesis block at least
MaxRaceHeight == 2
MaxRaceSide == 2

\* no reader has looked at the chain yet
NotRead == [read |-> FALSE, chain |-> << >>]

\* mutant: the lock is never found held
LockNeverHeld == TRUE

\* the lock all writers, and the readers that take it, run under is free
LockFree == pindexSetTip = NoCall

\* SetTip up to its loop: the vector is cleared for a null pindex, and resized
\* otherwise.  The caller holds the lock until the loop is done.
BeginSetTip(p) ==
    /\ LockFree
    /\ lastTip' = p
    /\ IF p = NULL
       THEN vChain' = << >> /\ UNCHANGED pindexSetTip
       ELSE vChain' = Resize(vChain, nHeight(p) + 1) /\ pindexSetTip' = p
    /\ UNCHANGED <<mapBlockIndex, prevTip, seenLocked, seenRacy, indexVars, diskVars>>

\* one pass of the loop of SetTip: an entry is written and pindex moves to its
\* parent, or the loop ends and the call returns
StepSetTip ==
    /\ pindexSetTip # NoCall
    /\ IF pindexSetTip # NULL /\ vChain[nHeight(pindexSetTip) + 1] # pindexSetTip
       THEN /\ vChain' = [vChain EXCEPT ![nHeight(pindexSetTip) + 1] = pindexSetTip]
            /\ pindexSetTip' = pprev(pindexSetTip)
       ELSE /\ pindexSetTip' = NoCall
            /\ UNCHANGED vChain
    /\ UNCHANGED <<mapBlockIndex, lastTip, prevTip, seenLocked, seenRacy, indexVars, diskVars>>

\* a reader takes the lock and reads the entries of the chain
ReadLocked ==
    /\ LockFree
    /\ seenLocked' = [read |-> TRUE, chain |-> vChain]
    /\ UNCHANGED <<mapBlockIndex, vChain, lastTip, prevTip, pindexSetTip, seenRacy,
                   indexVars, diskVars>>

\* a reader without the lock reads the entries while the loop of SetTip runs
ReadRacy ==
    /\ pindexSetTip # NoCall
    /\ seenRacy' = [read |-> TRUE, chain |-> vChain]
    /\ UNCHANGED <<mapBlockIndex, vChain, lastTip, prevTip, pindexSetTip, seenLocked,
                   indexVars, diskVars>>

\* SetTip in steps, with readers that take the lock and readers that do not
NextSetTip ==
    \/ \E parent \in Blocks \cup {NULL} :
          LockFree /\ AddToBlockIndex(parent, MaxRaceHeight, MaxRaceSide)
    \/ \E p \in Blocks \cup {NULL} : BeginSetTip(p)
    \/ StepSetTip
    \/ ReadLocked
    \/ ReadRacy

\* operator==(a, b): every outcome of the comparison, as the value returned,
\* whether an index outside a vector was read and whether the process died of
\* it.  For two empty vectors the sizes agree and vChain[size() - 1] is read
\* with size() - 1 wrapped around: the read is outside the vector, its value
\* and what becomes of the process are not defined.
ChainsEqual(a, b) ==
    IF Len(a) # Len(b) THEN {[value |-> FALSE, outside |-> FALSE, fault |-> FALSE]}
    ELSE IF Len(a) = 0
         THEN {[value |-> FALSE, outside |-> TRUE, fault |-> TRUE]}
              \cup {[value |-> v, outside |-> TRUE, fault |-> FALSE] : v \in BOOLEAN}
         ELSE {[value |-> a[Len(a)] = b[Len(b)], outside |-> FALSE, fault |-> FALSE]}

\* the active chain is compared with a chain whose tip was set to q
CallChainsEqual(q) ==
    /\ ~aborted
    /\ \E r \in ChainsEqual(vChain, SetTipResult(<< >>, q)) :
          /\ call' = [op |-> "operator==",
                      arg |-> [a |-> vChain, b |-> SetTipResult(<< >>, q)],
                      ret |-> r]
          /\ aborted' = r.fault
    /\ UNCHANGED <<idx, chainVars, diskVars>>

\* the block tree, the active chain and comparisons of it
NextEquals ==
    \/ \E parent \in Blocks \cup {NULL} :
          ~aborted /\ AddToBlockIndex(parent, MaxReorgHeight, MaxReorgSide)
    \/ \E p \in Blocks \cup {NULL} : ~aborted /\ SetTip(p) /\ UNCHANGED prevTip
    \/ \E q \in Blocks \cup {NULL} : CallChainsEqual(q)

----------------------------------------------------------------------------
(* CBlockIndex::GetMedianTimePast, on block indexes that carry their nTime *)

\* bound on the heights of the blocks whose median time is taken
MaxMedianHeight == 11

nMedianTimeSpan == 11

GetBlockTime(p) == mapBlockIndex[p].nTime

\* the loop of GetMedianTimePast: the times of pindex and the blocks before it,
\* each written in front of the ones collected so far (*(--pbegin) = ...)
RECURSIVE MedianTimes(_, _)
MedianTimes(pindex, i) ==
    IF i < nMedianTimeSpan /\ pindex # NULL
    THEN MedianTimes(pprev(pindex), i + 1) \o <<GetBlockTime(pindex)>>
    ELSE << >>

\* std::sort, as an insertion sort
RECURSIVE SortInsert(_, _)
SortInsert(sorted, x) ==
    IF sorted = << >> THEN <<x>>
    ELSE IF x <= Head(sorted) THEN <<x>> \o sorted
    ELSE <<Head(sorted)>> \o SortInsert(Tail(sorted), x)

RECURSIVE Sort(_)
Sort(times) == IF times = << >> THEN << >> ELSE SortInsert(Sort(Tail(times)), Head(times))

\* mutant: the lower middle of an even number of times
GetMedianTimePastLowerMiddle(p) ==
    LET sorted == Sort(MedianTimes(p, 0))
    IN  sorted[((Len(sorted) - 1) \div 2) + 1]

\* pbegin[(pend - pbegin) / 2] of the sorted times
GetMedianTimePast(p) ==
    LET sorted == Sort(MedianTimes(p, 0))
    IN  sorted[(Len(sorted) \div 2) + 1]

\* block times of eleven blocks in a row
ExampleTimes == <<100, 103, 107, 110, 111, 112, 115, 120, 121, 130, 140>>

\* the nTime a header of height h may carry: rising from block to block, or a
\* time that repeats and falls behind the times before it
BlockTimes(h) == {ExampleTimes[(h % 11) + 1], 112}

\* A header is accepted on the one branch: a block index with its nTime is
\* created and linked to its parent.
AddTimedBlock(parent, nTime) ==
    LET hash == NewHash(parent)
        h == IF parent = NULL THEN 0 ELSE nHeight(parent) + 1
    IN  /\ parent = NULL => Blocks = {}
        /\ h <= MaxMedianHeight
        /\ nTime \in BlockTimes(h)
        /\ SideBlocks(Blocks \cup {hash}) = {}
        /\ mapBlockIndex' = [b \in Blocks \cup {hash} |->
                                IF b = hash
                                THEN [pprev |-> parent, pskip |-> BuildSkip(parent, h),
                                      nHeight |-> h, nTime |-> nTime]
                                ELSE mapBlockIndex[b]]
        /\ UNCHANGED <<vChain, lastTip, prevTip, raceVars, indexVars, diskVars>>

NextMedian ==
    \E parent \in Blocks \cup {NULL} : \E nTime \in {ExampleTimes[i] : i \in 1..11} :
        AddTimedBlock(parent, nTime)

ChainInit ==
    /\ mapBlockIndex = << >>
    /\ vChain = << >>
    /\ lastTip = NoCall
    /\ prevTip = NoCall
    /\ pindexSetTip = NoCall
    /\ seenLocked = NotRead
    /\ seenRacy = NotRead

Init == ChainInit /\ IndexInit /\ DiskInit

\* the block tree and the active chain
Next ==
    \/ \E parent \in Blocks \cup {NULL} : AddToBlockIndex(parent, MaxHeight, MaxSide)
    \/ \E p \in Blocks \cup {NULL} : SetTip(p) /\ UNCHANGED prevTip

\* the same operations on small trees, remembering the previous SetTip call
NextReorg ==
    \/ \E parent \in Blocks \cup {NULL} : AddToBlockIndex(parent, MaxReorgHeight, MaxReorgSide)
    \/ \E p \in Blocks \cup {NULL} : SetTip(p) /\ prevTip' = lastTip

vars == <<chainVars, indexVars, diskVars>>

Spec == Init /\ [][Next]_vars

SpecReorg == Init /\ [][NextReorg]_vars

\* the validity facet of one block index
SpecValidity == Init /\ [][NextValidity]_vars

\* the proof-of-stake facet of one block index
SpecStake == Init /\ [][NextStake]_vars

\* the proof-of-stake facet of a block index whose status word changes too
SpecBlockIndex == Init /\ [][NextBlockIndex]_vars

\* SetTip running step by step beside readers
SpecSetTip == Init /\ [][NextSetTip]_vars

\* the active chain compared with other chains
SpecEquals == Init /\ [][NextEquals]_vars

\* block indexes with their times, on one branch
SpecMedian == Init /\ [][NextMedian]_vars

\* the cached hash of a disk record
SpecHash == Init /\ [][NextHash]_vars

\* a block index written to disk and read back
SpecDisk == Init /\ [][NextDisk]_vars

----------------------------------------------------------------------------
(* Reference notions the properties are stated with *)

\* the block reached from p by following pprev k times
RECURSIVE ParentWalk(_, _)
ParentWalk(p, k) == IF k = 0 \/ p = NULL THEN p ELSE ParentWalk(pprev(p), k - 1)

AncestorsOrSelf(p) == {ParentWalk(p, k) : k \in 0..nHeight(p)}

Range(v) == {v[i] : i \in 1..Len(v)}

Heights == (0 - 2)..(MaxHeight + 3)

----------------------------------------------------------------------------
\* C1: after set_tip(n) with n present the active chain is exactly the parent
\* path from genesis to n: tip() is n, height() is n's height (the tip's height,
\* -1 only for an empty chain), at(h) is the h-th block of the path and has
\* height h for 0 <= h <= height(), and at(h) is absent above, whatever the
\* chain held before the call.
C1_SetTipIsParentPath ==
    /\ Height(vChain) = (IF vChain = << >> THEN 0 - 1 ELSE nHeight(vChain[Len(vChain)]))
    /\ (lastTip # NoCall /\ lastTip # NULL) =>
          /\ Tip(vChain) = lastTip
          /\ Height(vChain) = nHeight(lastTip)
          /\ \A h \in Heights :
                IF 0 <= h /\ h <= nHeight(lastTip)
                THEN /\ At(vChain, h) = ParentWalk(lastTip, nHeight(lastTip) - h)
                     /\ nHeight(At(vChain, h)) = h
                ELSE At(vChain, h) = NULL

\* C1 witness: the tip was set to a block of a side branch below the top of the tree
C1_Witness ==
    /\ lastTip \in SideBlocks(Blocks)
    /\ nHeight(lastTip) >= 2
    /\ \E b \in Blocks : nHeight(b) > nHeight(lastTip) + 1
    /\ Tip(vChain) = lastTip

\* C2: in the tree G -> A -> B -> C with the branch A -> D, set_tip(C) and then
\* set_tip(D) leave height() = 1 and at(1) = D.
C2_Tree(C, D) ==
    /\ C \in Blocks /\ D \in Blocks
    /\ nHeight(C) = 3
    /\ pprev(ParentWalk(C, 3)) = NULL
    /\ pprev(D) = ParentWalk(C, 2)
    /\ D # pprev(C)

C2_ReorgToD_Original ==
    C2_Tree(prevTip, lastTip) =>
        /\ Height(vChain) = 1
        /\ At(vChain, 1) = lastTip

\* C2 as amended: D is a child of A, whose height is 1, so after set_tip(C) and
\* set_tip(D) height() = 2, at(2) = D and at(1) = A.
C2_ReorgToD ==
    C2_Tree(prevTip, lastTip) =>
        /\ Height(vChain) = 2
        /\ At(vChain, 2) = lastTip
        /\ At(vChain, 1) = pprev(lastTip)
        /\ At(vChain, 3) = NULL

\* C2 witness: set_tip(C) then set_tip(D) happened in that tree
C2_Witness ==
    /\ C2_Tree(prevTip, lastTip)
    /\ vChain = <<ParentWalk(prevTip, 3), ParentWalk(prevTip, 2), lastTip>>

\* C5: for every block and every height h with 0 <= h <= nHeight, GetAncestor(h)
\* with the skip pointers built by BuildSkip returns the block the plain walk
\* along pprev (nHeight - h steps) reaches, and that block has height h; for
\* h < 0 or h > nHeight it returns null.
C5_AncestorIsParentWalk ==
    \A p \in Blocks : \A h \in Heights :
        IF 0 <= h /\ h <= nHeight(p)
        THEN /\ GetAncestor(p, h) = ParentWalk(p, nHeight(p) - h)
             /\ nHeight(GetAncestor(p, h)) = h
        ELSE GetAncestor(p, h) = NULL

\* C5 witness: a block of a side branch whose skip pointer jumps over at least
\* seven blocks, and GetAncestor follows it
C5_Witness ==
    \E p \in SideBlocks(Blocks) :
        /\ pskip(p) # NULL
        /\ nHeight(pskip(p)) + 8 <= nHeight(p)
        /\ GetAncestor(p, nHeight(pskip(p))) = pskip(p)
        /\ GetAncestor(p, 0) = ParentWalk(p, nHeight(p))

\* C6: on a non-empty chain FindFork(p) is the highest block that is p or an
\* ancestor of p and is in the chain (p itself when the chain contains it); in
\* the tree G -> A -> B -> C with the branch A -> D, FindFork(D) on the chain
\* whose tip is C is A.
C6_FindForkIsLowestCommonAncestor ==
    vChain # << >> =>
        \A p \in Blocks :
            LET fork == FindFork(vChain, p)
                common == AncestorsOrSelf(p) \cap Range(vChain)
            IN  /\ fork \in common
                /\ \A a \in common : nHeight(a) <= nHeight(fork)
                /\ p \in Range(vChain) => fork = p
                /\ C2_Tree(vChain[Len(vChain)], p) => fork = pprev(pprev(vChain[Len(vChain)]))

\* C6 witness: the chain's tip is C and FindFork(D) is A, two blocks below C
C6_Witness ==
    \E D \in Blocks :
        /\ vChain # << >>
        /\ C2_Tree(vChain[Len(vChain)], D)
        /\ FindFork(vChain, D) = ParentWalk(lastTip, 2)
        /\ FindFork(vChain, D) = pprev(D)

\* C7: on a non-empty chain FindFork(GetLocator()) is the chain's tip; a locator
\* lists hashes from its first block toward genesis; FindFork(locator) is the
\* first listed hash whose block the chain contains, and genesis when none is.
UnknownHash == <<1>>

\* locators of every known block, and what a peer of another tree may send
C7_Locators ==
    LET own == {GetLocator(vChain, p) : p \in Blocks \cup {NULL}}
    IN  own \cup {SubSeq(l, 1, Len(l) - 1) : l \in own}
            \cup {<<UnknownHash>> \o l : l \in own}
            \cup {<<UnknownHash>>}

C7_FirstContained(l) ==
    LET hits == {i \in 1..Len(l) : l[i] \in Range(vChain)}
    IN  IF hits = {} THEN (IF vChain = << >> THEN NULL ELSE vChain[1])
        ELSE l[CHOOSE i \in hits : \A j \in hits : i <= j]

C7_LocatorRoundTrip ==
    vChain # << >> =>
        /\ FindForkLocator(vChain, GetLocator(vChain, NULL)) = vChain[Len(vChain)]
        /\ LET l == GetLocator(vChain, NULL)
           IN  /\ l[1] = vChain[Len(vChain)]
               /\ l[Len(l)] = vChain[1]
               /\ \A i \in 1..(Len(l) - 1) :
                     /\ nHeight(l[i + 1]) < nHeight(l[i])
                     /\ l[i + 1] \in AncestorsOrSelf(l[i])
        /\ \A l \in C7_Locators : FindForkLocator(vChain, l) = C7_FirstContained(l)

\* C7 witness: a chain long enough for the locator's step to double, and a
\* locator of a side block whose first hash is not in the chain
C7_Witness ==
    /\ Len(vChain) > LocatorSingleSteps + 3
    /\ LET l == GetLocator(vChain, NULL)
       IN  /\ Len(l) < Len(vChain)
           /\ FindForkLocator(vChain, l) = lastTip
    /\ \E p \in Blocks :
          /\ p \notin Range(vChain)
          /\ FindForkLocator(vChain, GetLocator(vChain, p)) = pprev(p)

----------------------------------------------------------------------------
Stages == {BLOCK_VALID_HEADER, BLOCK_VALID_TREE, BLOCK_VALID_TRANSACTIONS,
           BLOCK_VALID_CHAIN, BLOCK_VALID_SCRIPTS}

\* the failure facet and the validity level of a status word, by arithmetic
HasFailed(nStatus) == nStatus >= BLOCK_FAILED_VALID

StageOf(nStatus) == nStatus % 8

\* C3: once the status carries a failure marker, every RaiseValidity call with
\* a validity level returns false and leaves the status word as it was, the
\* marker stays, and IsValid is false for every level, Header included.
C3_Step ==
    HasFailed(idx.nStatus) =>
        /\ HasFailed(idx'.nStatus)
        /\ \A nUpTo \in Stages : ~IsValid(idx.nStatus, nUpTo) /\ ~IsValid(idx'.nStatus, nUpTo)
        /\ (call'.op = "RaiseValidity" /\ call'.arg \in Stages) =>
              (call'.ret = FALSE /\ idx'.nStatus = idx.nStatus)
        /\ (call'.op = "IsValid" /\ call'.arg \in Stages) => call'.ret = FALSE

C3_FailureIsSticky == [][C3_Step]_vars

\* C3 witness: RaiseValidity(Scripts) was called on a failed block of a lower level
C3_Witness ==
    /\ call.op = "RaiseValidity" /\ call.arg = BLOCK_VALID_SCRIPTS /\ call.ret = FALSE
    /\ HasFailed(idx.nStatus)
    /\ StageOf(idx.nStatus) = BLOCK_VALID_TREE

\* C4: without a failure marker the validity level never decreases; a
\* RaiseValidity(nUpTo) call with a level Header..Scripts returns true exactly
\* when the level before was below nUpTo, and the level is then nUpTo, the other
\* bits as before; otherwise it returns false and the status is unchanged.
C4_Step ==
    ~HasFailed(idx.nStatus) =>
        /\ StageOf(idx'.nStatus) >= StageOf(idx.nStatus)
        /\ (call'.op = "RaiseValidity" /\ call'.arg \in Stages) =>
              /\ call'.ret = (StageOf(idx.nStatus) < call'.arg)
              /\ call'.ret = TRUE =>
                    /\ StageOf(idx'.nStatus) = call'.arg
                    /\ idx'.nStatus \div 8 = idx.nStatus \div 8
              /\ call'.ret = FALSE => idx'.nStatus = idx.nStatus

C4_ValidityIsMonotonic == [][C4_Step]_vars

\* C4 witness: RaiseValidity(Header) returned false on a block at level Tree
\* whose data is on disk
C4_Witness ==
    /\ call.op = "RaiseValidity" /\ call.arg = BLOCK_VALID_HEADER /\ call.ret = FALSE
    /\ ~HasFailed(idx.nStatus)
    /\ idx.nStatus = BitOr(BLOCK_VALID_TREE, BLOCK_HAVE_DATA)

----------------------------------------------------------------------------
\* the stream was read into a new CDiskBlockIndex
FreshRead == call.op = "Unserialize" /\ call.arg = DiskBlockIndex

HasFlag(word, flag) == (word \div flag) % 2 = 1

\* C8 as claimed: a CDiskBlockIndex built of a block index, written and read
\* into a new record, equals the block index in every field but pprev, whose
\* place hashPrev takes with the parent's hash (zero without a parent).
C8_RoundTrip_Original ==
    FreshRead =>
        /\ \A f \in DOMAIN SetNull \ {"pprev"} : loaded[f] = idx[f]
        /\ loaded.hashPrev = idx.pprev

\* the fields SerializationOp always writes
AlwaysWritten ==
    {"nHeight", "nStatus", "nTx", "nMint", "nMoneySupply", "nFlags", "nStakeModifier",
     "hashProof", "nVersion", "hashMerkleRoot", "nTime", "nBits", "nNonce"}

\* the fields SerializationOp never writes
MemoryOnly == {"phashBlock", "pprev", "pskip", "nChainTrust", "nChainTx", "nSequenceId"}

\* C8 as amended: the record read back equals the block index in the fields
\* that are always written; in nFile, nDataPos, nUndoPos when the status flag
\* each depends on is set and in prevoutStake, nStakeTime when the
\* proof-of-stake flag is set, and holds a new record's value otherwise; the
\* fields never written hold a new record's values, POSDetailSet is true, and
\* hashPrev is the parent's hash (zero without a parent).
C8_RoundTrip ==
    FreshRead =>
        /\ \A f \in AlwaysWritten : loaded[f] = idx[f]
        /\ loaded.nFile = IF HasFlag(idx.nStatus, 8) \/ HasFlag(idx.nStatus, 16)
                          THEN idx.nFile ELSE 0
        /\ loaded.nDataPos = IF HasFlag(idx.nStatus, 8) THEN idx.nDataPos ELSE 0
        /\ loaded.nUndoPos = IF HasFlag(idx.nStatus, 16) THEN idx.nUndoPos ELSE 0
        /\ loaded.prevoutStake = IF HasFlag(idx.nFlags, 1) THEN idx.prevoutStake
                                 ELSE [hash |-> 0, n |-> 0 - 1]
        /\ loaded.nStakeTime = IF HasFlag(idx.nFlags, 1) THEN idx.nStakeTime ELSE 0
        /\ \A f \in MemoryOnly : loaded[f] = SetNull[f]
        /\ loaded.POSDetailSet = TRUE
        /\ loaded.hashPrev = idx.pprev
        /\ loaded.blockHash = << >>

\* C8 witness: a block index with its data on disk at offset 200, written with
\* the version in front and read back
C8_Witness ==
    /\ FreshRead
    /\ HasFlag(idx.nStatus, 8)
    /\ idx.nDataPos = 200
    /\ loaded.nDataPos = 200
    /\ Len(stream) > 15

\* C9: after a record is read, POSDetailSet is true, and when the flags read
\* lack the proof-of-stake flag, prevoutStake is null and nStakeTime is 0,
\* whatever the record held before and whatever the written index held.
C9_ReadResetsStake ==
    call.op = "Unserialize" =>
        /\ loaded.POSDetailSet = TRUE
        /\ ~HasFlag(loaded.nFlags, 1) =>
              /\ loaded.prevoutStake = [hash |-> 0, n |-> 0 - 1]
              /\ loaded.nStakeTime = 0

\* C9 witness: a record holding a stake outpoint and time is read from the
\* stream of an index that is not proof-of-stake and holds a stake outpoint
C9_Witness ==
    /\ call.op = "Unserialize"
    /\ call.arg.nStakeTime = 2
    /\ call.arg.prevoutStake # NullOutPoint
    /\ idx.prevoutStake # NullOutPoint
    /\ ~idx.POSDetailSet
    /\ ~HasFlag(loaded.nFlags, 1)
    /\ loaded.prevoutStake = NullOutPoint

----------------------------------------------------------------------------
\* C10: IsProofOfStake on a block index whose POSDetailSet is false fails its
\* assert (the call returns nothing and the process is gone); such is every
\* index default-constructed or built from a header until SetPOSDetail runs on
\* it.  With POSDetailSet true the call returns whether the proof-of-stake bit
\* of nFlags is set.
C10_Step ==
    /\ call'.op \in {"CBlockIndex", "CBlockIndexFromHeader"} => ~idx'.POSDetailSet
    /\ (~idx.POSDetailSet /\ call'.op \notin {"SetPOSDetail"}) => ~idx'.POSDetailSet
    /\ call'.op = "IsProofOfStake" =>
          IF idx.POSDetailSet
          THEN /\ ~aborted'
               /\ call'.ret = (idx.nFlags % 2 = 1)
          ELSE /\ aborted'
               /\ call'.ret = "assert"

C10_IsProofOfStakeNeedsDetail == [][C10_Step]_vars

\* C10 witness: the assert failed on an index built from a header whose
\* proof-of-stake bit had been set by SetProofOfStake
C10_Witness ==
    /\ aborted
    /\ call.op = "IsProofOfStake"
    /\ ~idx.POSDetailSet
    /\ idx.nFlags % 2 = 1
    /\ idx.nVersion = 2

----------------------------------------------------------------------------
\* C11: IsProofOfWork on a block index whose POSDetailSet is false fails an
\* assert as IsProofOfStake does: no IsProofOfWork call returns a value for an
\* index whose stake detail has not been set.
C11_IsProofOfWorkNeedsDetail ==
    (call.op = "IsProofOfWork" /\ ~idx.POSDetailSet) => aborted

\* C12: SetStakeEntropyBit(bit) with bit > 1 returns false and leaves every
\* field of the index, nFlags included, as it was; with bit 0 or 1 it returns
\* true.
C12_Step ==
    call'.op = "SetStakeEntropyBit" =>
        IF call'.arg > 1
        THEN call'.ret = FALSE /\ idx' = idx
        ELSE call'.ret = TRUE

C12_EntropyBitRange == [][C12_Step]_vars

\* C12 witness: SetStakeEntropyBit(3) returned false on an index whose flags
\* and status words are set and whose entropy bit is clear
C12_Witness ==
    /\ call.op = "SetStakeEntropyBit" /\ call.arg = 3 /\ call.ret = FALSE
    /\ idx.nFlags = 5
    /\ idx.nStatus # 0
    /\ idx.POSDetailSet

\* C13: SetPOSDetail(block) leaves POSDetailSet true; for a proof-of-stake
\* block it sets the proof-of-stake flag, and prevoutStake and nStakeTime to
\* the prevout of the first input of the second transaction and to that
\* transaction's time; for a proof-of-work block it sets prevoutStake to null
\* and nStakeTime to 0; the status word stays as it was.
C13_Step ==
    call'.op = "SetPOSDetail" =>
        LET block == call'.arg
        IN  /\ idx'.POSDetailSet = TRUE
            /\ block.pos =>
                  /\ idx'.nFlags % 2 = 1
                  /\ idx'.nFlags \div 2 = idx.nFlags \div 2
                  /\ idx'.prevoutStake = block.vtx[2].vin[1].prevout
                  /\ idx'.nStakeTime = block.vtx[2].nTime
            /\ ~block.pos =>
                  /\ idx'.prevoutStake = [hash |-> 0, n |-> 0 - 1]
                  /\ idx'.nStakeTime = 0
            /\ idx'.nStatus = idx.nStatus

C13_SetPOSDetailSetsStake == [][C13_Step]_vars

\* C13 witness: SetPOSDetail ran with a proof-of-stake block on an index whose
\* status word has a validity level, a have flag and a failure flag
C13_Witness ==
    /\ call.op = "SetPOSDetail" /\ call.arg.pos
    /\ idx.prevoutStake = [hash |-> 1, n |-> 1]
    /\ idx.nStakeTime = 2
    /\ idx.POSDetailSet
    /\ idx.nStatus = 2 + 8 + 32

\* C18: after SetPOSDetail(block) IsProofOfStake is true exactly when the block
\* is proof-of-stake and IsProofOfWork is its negation, whatever nFlags held
\* before, also after SetProofOfStake or an earlier SetPOSDetail with a
\* proof-of-stake block.
C18_DetailDecidesProofOfStake ==
    call.op = "SetPOSDetail" =>
        /\ IsProofOfStake(idx) = call.arg.pos
        /\ IsProofOfWork(idx) = ~call.arg.pos

\* C19: after SetStakeEntropyBit(b) returned true, b being 0 or 1,
\* GetStakeEntropyBit returns b, whatever the entropy bit was before and after
\* any earlier SetStakeEntropyBit calls; no other bit of nFlags changes.
C19_Step ==
    (call'.op = "SetStakeEntropyBit" /\ call'.ret = TRUE) =>
        /\ GetStakeEntropyBit(idx') = call'.arg
        /\ idx'.nFlags % 2 = idx.nFlags % 2
        /\ idx'.nFlags \div 4 = idx.nFlags \div 4

C19_EntropyBitSetterGetter == [][C19_Step]_vars

----------------------------------------------------------------------------
\* C16: IsValid(nUpTo) and RaiseValidity(nUpTo) fail their assert for every
\* nUpTo with a bit outside the validity bits (a have flag, a failure flag, or
\* one of them beside a level), a failed RaiseValidity leaves the status word
\* as it was, and the levels Header, Tree, Transactions, Chain and Scripts are
\* accepted.
C16_Step ==
    call'.op \in {"IsValid", "RaiseValidity"} =>
        /\ call'.arg \div 8 # 0 =>
              /\ aborted'
              /\ call'.ret = "assert"
              /\ idx'.nStatus = idx.nStatus
        /\ call'.arg \in Stages =>
              /\ ~aborted'
              /\ call'.ret \in BOOLEAN

C16_UpToOutsideMaskRejected == [][C16_Step]_vars

\* C16 witness: RaiseValidity(Tree | have data) failed its assert on an index
\* at level Header whose data is on disk
C16_Witness ==
    /\ aborted
    /\ call.op = "RaiseValidity" /\ call.arg = 2 + 8
    /\ idx.nStatus = 1 + 8

----------------------------------------------------------------------------
\* C14: GetBlockHash of a disk record returns the cached hash, recomputing
\* nothing, exactly when fUseFastIndex is set, the record's nTime is more than
\* 24 hours before the adjusted time and the cached hash is not zero;
\* otherwise it returns the hash of the header fields (nVersion, hashPrev,
\* hashMerkleRoot, nTime, nBits, nNonce) and stores it; after every call the
\* cached hash is the value returned, and nothing else of the record changed.
C14_CachedHashWhenOldAndFast ==
    call.op = "DiskGetBlockHash" =>
        LET disk == call.arg.disk
            old == fUseFastIndex /\ disk.nTime + 86400 < call.arg.nAdjustedTime
            fresh == <<disk.nVersion, disk.hashPrev, disk.hashMerkleRoot, disk.nTime,
                       disk.nBits, disk.nNonce>>
        IN  /\ call.ret = IF old /\ disk.blockHash # << >> THEN disk.blockHash ELSE fresh
            /\ loaded.blockHash = call.ret
            /\ [loaded EXCEPT !.blockHash = disk.blockHash] = disk

\* C14 witness: the cached hash of an old record was returned though the
\* header fields no longer hash to it
C14_Witness ==
    /\ call.op = "DiskGetBlockHash"
    /\ fUseFastIndex
    /\ loaded.nTime + 86400 < call.arg.nAdjustedTime
    /\ call.ret = call.arg.disk.blockHash
    /\ call.ret # <<loaded.nVersion, loaded.hashPrev, loaded.hashMerkleRoot,
                    loaded.nTime, loaded.nBits, loaded.nNonce>>

----------------------------------------------------------------------------
\* the blocks GetMedianTimePast may read: p and the blocks before it, eleven at most
C15_Window(p) ==
    {ParentWalk(p, k) : k \in 0..((IF nHeight(p) + 1 < 11 THEN nHeight(p) + 1 ELSE 11) - 1)}

\* C15: GetMedianTimePast returns the element at index count/2 (from 0) of the
\* ascending block times of the block and the blocks before it, count =
\* min(11, nHeight + 1) being the number of blocks read: at most count/2 of
\* these times are below the result and more than count/2 are not above it;
\* blocks further back are not read; for the eleven times 100, 103, 107, 110,
\* 111, 112, 115, 120, 121, 130, 140 the result is 112.
C15_MedianTimePast ==
    \A p \in Blocks :
        LET window == C15_Window(p)
            count == Cardinality(window)
            median == GetMedianTimePast(p)
        IN  /\ count = (IF nHeight(p) + 1 < 11 THEN nHeight(p) + 1 ELSE 11)
            /\ Len(MedianTimes(p, 0)) = count
            /\ \E b \in window : GetBlockTime(b) = median
            /\ Cardinality({b \in window : GetBlockTime(b) < median}) <= count \div 2
            /\ Cardinality({b \in window : GetBlockTime(b) <= median}) > count \div 2
            /\ (/\ count = 11
                /\ \A i \in 1..11 : GetBlockTime(ParentWalk(p, 11 - i)) = ExampleTimes[i])
                  => median = 112

\* C15 witness: twelve blocks; the eleven up to height 10 carry the times of
\* the example and their median is 112, the two up to height 1 have the
\* median 103, and the block of height 11 does not read the genesis block
C15_Witness ==
    \E p, q, r \in Blocks :
        /\ nHeight(p) = 10 /\ nHeight(q) = 1 /\ nHeight(r) = 11
        /\ \A i \in 1..11 : GetBlockTime(ParentWalk(p, 11 - i)) = ExampleTimes[i]
        /\ GetMedianTimePast(p) = 112
        /\ GetMedianTimePast(q) = 103
        /\ GetBlockTime(r) = 112
        /\ GetMedianTimePast(r) = 112
        /\ ParentWalk(r, 11) \notin C15_Window(r)

----------------------------------------------------------------------------
\* C20: comparing two chains with == reads only entries that exist and is
\* defined for every pair of chains: it returns true exactly when both have
\* the same length and the same tip, and two empty chains compare equal with
\* no access outside the vectors.
C20_EqualityIsTotal ==
    call.op = "operator==" =>
        /\ ~call.ret.outside
        /\ ~aborted
        /\ call.ret.value = (/\ Len(call.arg.a) = Len(call.arg.b)
                             /\ Tip(call.arg.a) = Tip(call.arg.b))

----------------------------------------------------------------------------
\* a vector whose entries are the parent path from the genesis block to its last
C17_IsParentPath(v) ==
    \A i \in 1..Len(v) :
        /\ v[i] \in Blocks
        /\ nHeight(v[i]) = i - 1
        /\ pprev(v[i]) = (IF i = 1 THEN NULL ELSE v[i - 1])

\* some entry's parent is not the entry below it
C17_IsMixed(v) ==
    \E i \in 2..Len(v) : v[i] # NULL /\ v[i - 1] # NULL /\ pprev(v[i]) # v[i - 1]

\* C17: SetTip writes the entries of the chain one at a time from the top
\* down, so a reader between two writes of a reorganization can find an entry
\* whose parent is not the entry below it; when every SetTip runs to its end
\* under the lock and readers take the lock, every chain a reader finds is one
\* parent path from the genesis block to a tip (the tip SetTip was given).
C17_LockedReadersSeeOnePath ==
    /\ seenLocked.read => C17_IsParentPath(seenLocked.chain)
    /\ LockFree =>
          /\ C17_IsParentPath(vChain)
          /\ lastTip # NoCall => Tip(vChain) = lastTip

\* C17 witness: during a reorganization a reader without the lock found a
\* chain mixed of the old and the new branch, and after it a reader with the
\* lock found the new branch
C17_Witness ==
    /\ seenRacy.read /\ C17_IsMixed(seenRacy.chain)
    /\ seenLocked.read /\ Len(seenLocked.chain) = Len(seenRacy.chain)
    /\ seenLocked.chain = vChain
    /\ seenLocked.chain[Len(vChain)] = seenRacy.chain[Len(vChain)]
    /\ seenLocked.chain # seenRacy.chain

====
